---------------------------- MODULE Spec2Model ----------------------------
(***************************************************************************)
(* State-machine model of the IoT protocol benchmark driver                *)
(* (benchmark_runner.py): the sweep of main(), the three transport         *)
(* strategies bench_http, bench_mqtt (with its receive-callback thread)    *)
(* and bench_coap/_bench_coap_async, the delay emulator simulate_delay and *)
(* the aggregator summarize; and of the /ingest, /stats and /reset      *)
(* handlers of the HTTP server (http_server.py).                           *)
(*                                                                         *)
(* Time is in integer milliseconds.  The network, the servers and the      *)
(* client libraries are the environment: each call into them returns one   *)
(* of the outcomes the library can produce, chosen nondeterministically;   *)
(* every outcome other than the nominal one consumes one unit of the       *)
(* fault budget MaxFaults.                                                 *)
(***************************************************************************)
EXTENDS Integers, Sequences, FiniteSets, TLC

(***************************************************************************)
(* Bounds of the model.                                                    *)
(***************************************************************************)
MaxIter == 2          \* --iterations ranges over 0..MaxIter
MaxFaults == 1        \* environment faults per sweep
ServiceMs == 5        \* time a server takes to answer a request
NetLatency == 7       \* publish-to-receive time of a broker loopback
MaxLen == 4           \* longest latency list handed to summarize directly
MaxLat == 3           \* largest latency in such a list
MaxCount == 3         \* largest ok / sent handed to summarize directly
MaxThreads == 2       \* requests http_server.py handles at the same time
MaxRequests == 3      \* requests http_server.py receives in a run

(***************************************************************************)
(* Program constants.                                                      *)
(***************************************************************************)
HighLatencyMs == 150
JitteryMs == 10
PenaltyMs == 2000
HttpTimeoutMs == 2000
WaitCeilingMs == 5000
DefaultIterations == 50
None == -1            \* Python's None in a numeric column of a row

AllScenarios == <<"normal", "high_latency", "jittery">>
AllPayloads == <<32, 1024, 10240>>
AllQos == <<0, 1, 2>>

(***************************************************************************)
(* Sequence helpers.                                                       *)
(***************************************************************************)
RECURSIVE SumSeq(_)
SumSeq(s) == IF s = <<>> THEN 0 ELSE Head(s) + SumSeq(Tail(s))

\* [x for x in s if x > 0]
RECURSIVE PositiveOnly(_)
PositiveOnly(s) ==
    IF s = <<>> THEN <<>>
    ELSE IF Head(s) > 0 THEN <<Head(s)>> \o PositiveOnly(Tail(s))
         ELSE PositiveOnly(Tail(s))

RECURSIVE Insert(_, _)
Insert(x, s) ==
    IF s = <<>> THEN <<x>>
    ELSE IF x <= Head(s) THEN <<x>> \o s
         ELSE <<Head(s)>> \o Insert(x, Tail(s))

RECURSIVE Sorted(_)
Sorted(s) == IF s = <<>> THEN <<>> ELSE Insert(Head(s), Sorted(Tail(s)))

Max2(a, b) == IF a >= b THEN a ELSE b

\* Python list indexing with a 0-based index that may be negative:
\* s[i] for i >= 0, s[len(s) + i] for i < 0.
PyIndex(s, i) == IF i >= 0 THEN s[i + 1] ELSE s[Len(s) + i + 1]

\* round(x) of the non-negative rational num/den to the nearest integer.
RoundDiv(num, den) == (2 * num + den) \div (2 * den)

\* simulate_delay without its elif branch
SimulateDelayNoJitter(scenario) ==
    IF scenario = "high_latency" THEN HighLatencyMs ELSE 0

(***************************************************************************)
(* simulate_delay: the milliseconds slept for a scenario.                  *)
(***************************************************************************)
simulate_delay(scenario) ==
    IF scenario = "high_latency" THEN HighLatencyMs
    ELSE IF scenario = "jittery" THEN JitteryMs
    ELSE 0

(***************************************************************************)
(* summarize.  Latencies are integers, so round(x, 2) leaves them alone;   *)
(* throughput and loss are kept in hundredths (the two decimals of         *)
(* round(., 2)).                                                           *)
(***************************************************************************)
PositiveLat(res) == PositiveOnly(res.lat)

\* int(len(lat) * 0.95) - 1
P95Index(n) == ((n * 95) \div 100) - 1

P50(lat) == IF lat # <<>> THEN PyIndex(Sorted(lat), Len(lat) \div 2) ELSE None

P95(lat) == IF Len(lat) >= 1 THEN PyIndex(Sorted(lat), P95Index(Len(lat))) ELSE None

Mx(lat) == IF lat # <<>> THEN Sorted(lat)[Len(lat)] ELSE None

\* the loss without the clamp max(0, .)
LossNoClamp(ok, sent) ==
    RoundDiv(10000 * (Max2(1, sent) - ok), Max2(1, sent))

\* max(0, 100.0 * (1 - ok / max(1, sent))), in hundredths of a percent
Loss(ok, sent) ==
    IF Max2(1, sent) - ok <= 0 THEN 0
    ELSE RoundDiv(10000 * (Max2(1, sent) - ok), Max2(1, sent))

\* a throughput per millisecond of latency: line 125 without its / 1000.0
ThrPerMs(ok, lat) ==
    IF lat # <<>> /\ SumSeq(lat) > 0 THEN RoundDiv(100 * ok, SumSeq(lat)) ELSE 0

\* ok / (sum(lat) / 1000.0) if lat and sum(lat) > 0 else 0.0, in hundredths
Thr(ok, lat) ==
    IF lat # <<>> /\ SumSeq(lat) > 0 THEN RoundDiv(100000 * ok, SumSeq(lat)) ELSE 0

summarize(protocol, scenario, payload, qos, res) ==
    LET lat == PositiveLat(res) IN
    [ protocol |-> protocol,
      scenario |-> scenario,
      payload_bytes |-> payload,
      qos |-> qos,
      iterations |-> Len(lat),
      latency_p50_ms |-> P50(lat),
      latency_p95_ms |-> P95(lat),
      latency_max_ms |-> Mx(lat),
      throughput_msg_per_s |-> Thr(res.ok, lat),
      loss_percent |-> Loss(res.ok, res.sent) ]

(***************************************************************************)
(* State.                                                                  *)
(***************************************************************************)
VARIABLES
    protocols,   \* main: the protocol list of the sweep
    iterations,  \* main: args.iterations
    installed,   \* which optional client libraries were imported (lines 7-20)
    scenarios,   \* main: scenarios
    payloads,    \* main: payloads
    qos_list,    \* main: qos_list
    cur,         \* main: positions of the four nested loops
    pc,          \* where the main thread is
    rows,        \* main: rows
    printed,     \* the [WARN]/[OK] lines printed by main
    outFile,     \* content of the file at args.output
    ret,         \* (res, err) returned by the strategy just called
    i,           \* strategy: loop variable
    lat,         \* strategy: lat
    ok,          \* bench_http, _bench_coap_async: ok
    t0,          \* strategy: t0 of the message being sent
    now,         \* the perf_counter clock, ms
    recv,        \* bench_mqtt: recv
    ev,          \* bench_mqtt: ev (threading.Event)
    conn,        \* connection / session of the running strategy is open
    loop,        \* bench_mqtt: the client's network loop thread is running
    inflight,    \* messages the broker still has to deliver to the client
    cb,          \* the on_message invocation in progress on the loop thread
    timedOut,    \* bench_mqtt: ev.wait returned by timeout
    faults,      \* environment faults used so far
    hist,        \* history: what the running strategy has done, in order
    active,      \* history: combinations whose strategy call has not returned
    attempts,    \* history: number of combinations the sweep has attempted
    sumIn,       \* summarize called directly: its res argument
    sumOut,      \* summarize called directly: the row
    stats,       \* http_server.py: stats
    lock,        \* http_server.py: stats_lock, the thread that holds it or 0
    handlers,    \* http_server.py: the request each handler thread is at
    served       \* history: what the requests served so far should add up to

cfgVars == <<protocols, iterations, installed, scenarios, payloads, qos_list>>
sweepVars == <<cfgVars, cur, pc, rows, printed, outFile, ret>>
stratVars == <<i, lat, ok, t0, recv, ev, conn, loop, inflight, cb, timedOut>>
histVars == <<faults, hist, active, attempts>>
sumVars == <<sumIn, sumOut>>
srvVars == <<stats, lock, handlers, served>>
benchVars == <<sweepVars, stratVars, now, histVars, sumVars>>
vars == <<sweepVars, stratVars, now, histVars, sumVars, srvVars>>

ProtocolNames == {"HTTP", "MQTT", "COAP", "XMPP"}

\* p.upper() of a name given on the command line
Upper(p) ==
    CASE p = "http" -> "HTTP"
      [] p = "mqtt" -> "MQTT"
      [] p = "coap" -> "COAP"
      [] p = "xmpp" -> "XMPP"
      [] OTHER -> p

GivenNames == ProtocolNames \cup {"http", "mqtt", "coap", "xmpp"}

\* main, lines 152-155
SelectProtocols(all, given) ==
    IF all \/ given = <<>> THEN <<"HTTP", "MQTT", "COAP">>
    ELSE [j \in 1..Len(given) |-> Upper(given[j])]

\* the --protocols lists tried: none, or one name
GivenLists == {<<>>} \cup {<<n>> : n \in GivenNames}

\* which libraries are importable
InstalledSets ==
    {[requests |-> r, mqtt |-> m, coap |-> c] :
        r \in BOOLEAN, m \in BOOLEAN, c \in BOOLEAN}

NoRes == [none |-> TRUE, lat |-> <<>>, ok |-> 0, sent |-> 0, err |-> ""]
Res(l, o, s) == [none |-> FALSE, lat |-> l, ok |-> o, sent |-> s, err |-> ""]
Err(e) == [none |-> TRUE, lat |-> <<>>, ok |-> 0, sent |-> 0, err |-> e]

\* done counts the invocations that have run to their end
NoCb == [busy |-> FALSE, owner |-> 0, done |-> 0]

\* a qos_iter that is the QoS list for every protocol
QosIterAlways(proto) == qos_list

\* qos_iter, line 172
QosIter(proto) == IF proto = "MQTT" THEN qos_list ELSE <<None>>

Proto == protocols[cur.p]
Scen == scenarios[cur.s]
Payload == payloads[cur.y]
Qos == QosIter(Proto)[cur.q]

SweepOver == cur.p > Len(protocols)

\* the step of the four nested for loops of main, innermost first
Advance(c) ==
    IF c.q < Len(QosIter(protocols[c.p])) THEN [c EXCEPT !.q = c.q + 1]
    ELSE IF c.y < Len(payloads) THEN [c EXCEPT !.y = c.y + 1, !.q = 1]
    ELSE IF c.s < Len(scenarios) THEN [c EXCEPT !.s = c.s + 1, !.y = 1, !.q = 1]
    ELSE [p |-> c.p + 1, s |-> 1, y |-> 1, q |-> 1]

FreshStrat ==
    /\ i' = 0 /\ lat' = <<>> /\ ok' = 0 /\ t0' = 0 /\ recv' = 0 /\ ev' = FALSE
    /\ conn' = FALSE /\ loop' = FALSE /\ inflight' = {} /\ cb' = NoCb
    /\ timedOut' = FALSE

\* http_server.py, lines 30-37: the counters of the server at its start
NoStats ==
    [total_requests |-> 0, successful_requests |-> 0,
     failed_requests |-> 0, total_bytes |-> 0]

Threads == 1..MaxThreads

\* a handler thread with no request
Idle ==
    [pc |-> "idle", kind |-> "", is_json |-> FALSE,
     data |-> [type |-> "object", members |-> {}], size |-> 0,
     todo |-> <<>>, tmp |-> 0, status |-> 0, snap |-> NoStats]

NoneServed == [requests |-> 0, accepted |-> 0, bytes |-> 0, failed |-> 0, arrays |-> 0]

\* http_server.py when it starts
ServerStart ==
    /\ stats = NoStats
    /\ lock = 0
    /\ handlers = [t \in Threads |-> Idle]
    /\ served = NoneServed

\* the file at args.output before the run: the table a prior successful
\* run left there
PriorFile == [written |-> FALSE, rows |-> <<>>, prior |-> TRUE]

\* os.path.dirname(args.output): a directory, or "" for a bare file name
OutputDirs == {"results", ""}

\* the state main starts its loops in (line 168)
Start ==
    /\ cur = [p |-> 1, s |-> 1, y |-> 1, q |-> 1]
    /\ pc = "dispatch"
    /\ rows = <<>>
    /\ printed = <<>>
    /\ outFile = PriorFile
    /\ ret = NoRes
    /\ i = 0 /\ lat = <<>> /\ ok = 0 /\ t0 = 0 /\ recv = 0 /\ ev = FALSE
    /\ conn = FALSE /\ loop = FALSE /\ inflight = {} /\ cb = NoCb
    /\ timedOut = FALSE
    /\ now = 0
    /\ hist = <<>> /\ active = {} /\ attempts = 0
    /\ sumIn = NoRes
    /\ sumOut = summarize("", "", 0, None, NoRes)
    /\ ServerStart

\* The sweep with an environment that may fail MaxFaults times.  To keep
\* the sweep short, only the first payload size and the first QoS level
\* of the lists of lines 157 and 159 are swept here (FullSpec sweeps them
\* all): neither value is read by any condition of the driver.
Init ==
    /\ \E all \in BOOLEAN, given \in GivenLists :
           protocols = SelectProtocols(all, given)
    /\ iterations \in 0..MaxIter
    /\ installed \in InstalledSets
    /\ scenarios = AllScenarios
    /\ payloads = SubSeq(AllPayloads, 1, 1)
    /\ qos_list = SubSeq(AllQos, 1, 1)
    /\ faults = 0
    /\ Start

Fault == faults < MaxFaults /\ faults' = faults + 1

\* entries of hist: a delay of ms, a send, a recorded sample of ms
Delay(ms) == [e |-> "delay", ms |-> ms, counted |-> FALSE]
Send == [e |-> "send", ms |-> 0, counted |-> FALSE]

\* a call of the MQTT client: connect, subscribe and publish (with the
\* QoS passed), loop_start, the wait, loop_stop, disconnect
Call(what, qos) == [e |-> what, ms |-> qos, counted |-> FALSE]

Sample(kind, ms, counted) == [e |-> kind, ms |-> ms, counted |-> counted]

Line(kind, reason) ==
    [kind |-> kind, protocol |-> Proto, scenario |-> Scen,
     payload |-> Payload, qos |-> Qos, reason |-> reason]

(***************************************************************************)
(* main: the body of the innermost loop (lines 174-186) and the result     *)
(* sink (lines 188-195).                                                   *)
(***************************************************************************)
\* the reason a strategy returns before doing anything, "" if it does not
NotInstalled(proto) ==
    CASE proto = "HTTP" -> IF installed.requests THEN "" ELSE "requests-not-installed"
      [] proto = "MQTT" -> IF installed.mqtt THEN "" ELSE "mqtt-not-installed"
      [] proto = "COAP" -> IF installed.coap THEN "" ELSE "coap-not-installed"
      [] OTHER -> "unknown-protocol"

\* The strategy returns (None, reason) at its first statement: main prints
\* the skip line and continues with the next combination.
SkipCombo ==
    /\ pc = "dispatch" /\ ~SweepOver
    /\ NotInstalled(Proto) # ""
    /\ ret' = Err(NotInstalled(Proto))
    /\ printed' = Append(printed, Line("skip", NotInstalled(Proto)))
    /\ cur' = Advance(cur)
    /\ attempts' = attempts + 1
    /\ hist' = <<>>
    /\ UNCHANGED <<cfgVars, pc, rows, outFile>>
    /\ UNCHANGED <<stratVars, now, faults, active, sumVars, srvVars>>

\* main calls a strategy whose library is installed
StartStrategy(proto, first) ==
    /\ pc = "dispatch" /\ ~SweepOver
    /\ Proto = proto /\ NotInstalled(proto) = ""
    /\ FreshStrat
    /\ pc' = first
    /\ hist' = <<>>
    /\ active' = active \cup {cur}
    /\ attempts' = attempts + 1
    /\ UNCHANGED <<cfgVars, cur, rows, printed, outFile, ret>>
    /\ UNCHANGED <<now, faults, sumVars, srvVars>>

\* the strategy call returns to main
Return(r) ==
    /\ ret' = r
    /\ pc' = "collect"
    /\ active' = active \ {cur}

\* lines 183-186 with no row for a result without a positive latency
CollectSkipsEmpty ==
    /\ pc = "collect"
    /\ IF ret.none
       THEN /\ printed' = Append(printed, Line("skip", ret.err))
            /\ rows' = rows
       ELSE /\ rows' = IF PositiveLat(ret) = <<>> THEN rows
                       ELSE Append(rows, summarize(Proto, Scen, Payload, Qos, ret))
            /\ printed' = printed
    /\ cur' = Advance(cur)
    /\ pc' = "dispatch"
    /\ UNCHANGED <<cfgVars, outFile, ret>>
    /\ UNCHANGED <<stratVars, now, histVars, sumVars, srvVars>>

\* lines 183-186 with a row list that takes the newest row first
CollectNewestFirst ==
    /\ pc = "collect"
    /\ IF ret.none
       THEN /\ printed' = Append(printed, Line("skip", ret.err))
            /\ rows' = rows
       ELSE /\ rows' = <<summarize(Proto, Scen, Payload, Qos, ret)>> \o rows
            /\ printed' = printed
    /\ cur' = Advance(cur)
    /\ pc' = "dispatch"
    /\ UNCHANGED <<cfgVars, outFile, ret>>
    /\ UNCHANGED <<stratVars, now, histVars, sumVars, srvVars>>

\* lines 183-186
Collect ==
    /\ pc = "collect"
    /\ IF ret.none
       THEN /\ printed' = Append(printed, Line("skip", ret.err))
            /\ rows' = rows
       ELSE /\ rows' = Append(rows, summarize(Proto, Scen, Payload, Qos, ret))
            /\ printed' = printed
    /\ cur' = Advance(cur)
    /\ pc' = "dispatch"
    /\ UNCHANGED <<cfgVars, outFile, ret>>
    /\ UNCHANGED <<stratVars, now, histVars, sumVars, srvVars>>

\* lines 188-195; os.makedirs("") raises FileNotFoundError
Persist ==
    /\ pc = "dispatch" /\ SweepOver
    /\ \E dir \in OutputDirs :
        IF dir = ""
        THEN /\ pc' = "output_failed"
             /\ UNCHANGED <<outFile, printed>>
        ELSE /\ pc' = "done"
             /\ IF rows # <<>>
                THEN /\ outFile' = [written |-> TRUE, rows |-> rows, prior |-> FALSE]
                     /\ printed' = Append(printed,
                            [kind |-> "ok", protocol |-> "", scenario |-> "",
                             payload |-> 0, qos |-> None, reason |-> ""])
                ELSE /\ outFile' = outFile
                     /\ printed' = Append(printed,
                            [kind |-> "warn", protocol |-> "", scenario |-> "",
                             payload |-> 0, qos |-> None,
                             reason |-> "no results produced"])
    /\ UNCHANGED <<cfgVars, cur, rows, ret>>
    /\ UNCHANGED <<stratVars, now, histVars, sumVars, srvVars>>

\* An exception leaves the strategy and main: the interpreter exits, and
\* the daemon loop thread with it.
Crash ==
    /\ pc' = "crashed"
    /\ UNCHANGED <<cfgVars, cur, rows, printed, outFile, ret>>

(***************************************************************************)
(* bench_http (lines 34-52).                                               *)
(***************************************************************************)
StartHttp == StartStrategy("HTTP", "http_loop")

\* lines 41-43: the delay, the request body, t0
HttpIterBegin ==
    /\ pc = "http_loop" /\ i < iterations
    /\ now' = now + simulate_delay(Scen)
    /\ t0' = now'
    /\ hist' = Append(hist, Delay(simulate_delay(Scen)))
    /\ pc' = "http_post"
    /\ UNCHANGED <<cfgVars, cur, rows, printed, outFile, ret>>
    /\ UNCHANGED <<i, lat, ok, recv, ev, conn, loop, inflight, cb, timedOut>>
    /\ UNCHANGED <<faults, active, attempts, sumVars, srvVars>>

\* what requests.post does: a 200 response, another status, no response
\* within timeout=2, or a transport error
HttpOutcomes == {"ok", "status", "timeout", "error"}

Raises(outcome) == outcome \in {"timeout", "error"}

Elapsed(outcome) == IF outcome = "timeout" THEN HttpTimeoutMs ELSE ServiceMs

\* lines 44-51 with an except branch that records nothing
HttpPostOmitsFailed ==
    /\ pc = "http_post"
    /\ \E outcome \in HttpOutcomes :
        /\ IF outcome = "ok" THEN faults' = faults ELSE Fault
        /\ now' = now + Elapsed(outcome)
        /\ IF Raises(outcome)
           THEN /\ lat' = lat
                /\ ok' = ok
                /\ hist' = Append(hist, Send)
           ELSE /\ ok' = IF outcome = "ok" THEN ok + 1 ELSE ok
                /\ lat' = Append(lat, now' - t0)
                /\ hist' = hist \o <<Send, Sample(outcome, now' - t0, ok' > ok)>>
    /\ i' = i + 1
    /\ pc' = "http_loop"
    /\ UNCHANGED <<cfgVars, cur, rows, printed, outFile, ret>>
    /\ UNCHANGED <<t0, recv, ev, conn, loop, inflight, cb, timedOut>>
    /\ UNCHANGED <<active, attempts, sumVars, srvVars>>

\* lines 44-51
HttpPost ==
    /\ pc = "http_post"
    /\ \E outcome \in HttpOutcomes :
        /\ IF outcome = "ok" THEN faults' = faults ELSE Fault
        /\ now' = now + Elapsed(outcome)
        /\ IF Raises(outcome)
           THEN /\ lat' = Append(lat, PenaltyMs)
                /\ ok' = ok
           ELSE /\ ok' = IF outcome = "ok" THEN ok + 1 ELSE ok
                /\ lat' = Append(lat, now' - t0)
        /\ hist' = hist \o <<Send, Sample(outcome, lat'[Len(lat')], ok' > ok)>>
    /\ i' = i + 1
    /\ pc' = "http_loop"
    /\ UNCHANGED <<cfgVars, cur, rows, printed, outFile, ret>>
    /\ UNCHANGED <<t0, recv, ev, conn, loop, inflight, cb, timedOut>>
    /\ UNCHANGED <<active, attempts, sumVars, srvVars>>

(***************************************************************************)
(* bench_http against the /ingest handler of http_server.py.               *)
(***************************************************************************)
\* lines 42 and 45: the request requests.post(url, json=data) sends.  The
\* body is the JSON text of data; its length is taken as the payload size
\* plus the 25 characters around it.
HttpRequest(seq, payload) ==
    [is_json |-> TRUE,
     data |-> [type |-> "object", members |-> {"seq", "payload"}],
     size |-> 25 + payload]

\* http_server.py, ingest_data (lines 66-126) run on its own, for a body
\* that parses: the status it answers and the counters it leaves.  A body
\* is a JSON object or array, given by its keys or its elements.  For a
\* body that holds device_id but is no object, data.get at line 104 raises
\* after the counters of lines 98-101 were updated, and line 125 counts it
\* as failed too.
ingest_data(request, st) ==
    IF ~request.is_json
    THEN [status |-> 400,
          stats |-> [st EXCEPT !.failed_requests = @ + 1]]
    ELSE IF request.data.members = {} \/ "device_id" \notin request.data.members
    THEN [status |-> 400,
          stats |-> [st EXCEPT !.failed_requests = @ + 1]]
    ELSE IF request.data.type # "object"
    THEN [status |-> 500,
          stats |-> [st EXCEPT !.total_requests = @ + 1,
                               !.successful_requests = @ + 1,
                               !.total_bytes = @ + request.size,
                               !.failed_requests = @ + 1]]
    ELSE [status |-> 200,
          stats |-> [st EXCEPT !.total_requests = @ + 1,
                               !.successful_requests = @ + 1,
                               !.total_bytes = @ + request.size]]

\* lines 44-51 when the server is http_server.py and the network is sound
HttpPostIngest ==
    /\ pc = "http_post"
    /\ LET answer == ingest_data(HttpRequest(i, Payload), stats)
           outcome == IF answer.status = 200 THEN "ok" ELSE "status"
       IN /\ stats' = answer.stats
          /\ now' = now + Elapsed(outcome)
          /\ ok' = IF answer.status = 200 THEN ok + 1 ELSE ok
          /\ lat' = Append(lat, now' - t0)
          /\ hist' = hist \o <<Send, Sample(outcome, now' - t0, ok' > ok)>>
    /\ i' = i + 1
    /\ pc' = "http_loop"
    /\ UNCHANGED <<cfgVars, cur, rows, printed, outFile, ret>>
    /\ UNCHANGED <<t0, recv, ev, conn, loop, inflight, cb, timedOut>>
    /\ UNCHANGED <<faults, active, attempts, sumVars>>
    /\ UNCHANGED <<lock, handlers, served>>

\* line 52
HttpReturn ==
    /\ pc = "http_loop" /\ i >= iterations
    /\ Return(Res(lat, ok, iterations))
    /\ UNCHANGED <<cfgVars, cur, rows, printed, outFile>>
    /\ UNCHANGED <<stratVars, now, faults, hist, attempts, sumVars, srvVars>>

(***************************************************************************)
(* bench_coap and _bench_coap_async (lines 91-117).                        *)
(***************************************************************************)
StartCoap == StartStrategy("COAP", "coap_create")

\* line 92; an exception is caught at line 116
CoapCreate ==
    /\ pc = "coap_create"
    /\ \/ /\ conn' = TRUE
          /\ pc' = "coap_loop"
          /\ UNCHANGED <<ret, active, faults>>
       \/ /\ Fault
          /\ Return(Err("coap-failed"))
          /\ conn' = conn
    /\ UNCHANGED <<cfgVars, cur, rows, printed, outFile>>
    /\ UNCHANGED <<i, lat, ok, t0, recv, ev, loop, inflight, cb, timedOut>>
    /\ UNCHANGED <<now, hist, attempts, sumVars, srvVars>>

\* lines 97-99
CoapIterBegin ==
    /\ pc = "coap_loop" /\ i < iterations
    /\ now' = now + simulate_delay(Scen)
    /\ t0' = now'
    /\ hist' = Append(hist, Delay(simulate_delay(Scen)))
    /\ pc' = "coap_request"
    /\ UNCHANGED <<cfgVars, cur, rows, printed, outFile, ret>>
    /\ UNCHANGED <<i, lat, ok, recv, ev, conn, loop, inflight, cb, timedOut>>
    /\ UNCHANGED <<faults, active, attempts, sumVars, srvVars>>

\* what awaiting context.request(req).response does: a response with a
\* success code, a response with an error code (4.xx, 5.xx), or an
\* exception when the library gives up or the transport fails
CoapOutcomes == {"ok", "status", "timeout", "error"}

\* lines 100-106
CoapRequest ==
    /\ pc = "coap_request"
    /\ \E outcome \in CoapOutcomes :
        /\ IF outcome = "ok" THEN faults' = faults ELSE Fault
        /\ now' = now + ServiceMs
        /\ IF Raises(outcome)
           THEN /\ lat' = Append(lat, PenaltyMs)
                /\ ok' = ok
           ELSE /\ ok' = ok + 1
                /\ lat' = Append(lat, now' - t0)
        /\ hist' = hist \o <<Send, Sample(outcome, lat'[Len(lat')], ok' > ok)>>
    /\ i' = i + 1
    /\ pc' = "coap_loop"
    /\ UNCHANGED <<cfgVars, cur, rows, printed, outFile, ret>>
    /\ UNCHANGED <<t0, recv, ev, conn, loop, inflight, cb, timedOut>>
    /\ UNCHANGED <<active, attempts, sumVars, srvVars>>

\* lines 107-108 and 114-117
CoapShutdown ==
    /\ pc = "coap_loop" /\ i >= iterations
    /\ \/ /\ conn' = FALSE
          /\ Return(Res(lat, ok, iterations))
          /\ faults' = faults
       \/ /\ Fault
          /\ conn' = conn
          /\ Return(Err("coap-failed"))
    /\ UNCHANGED <<cfgVars, cur, rows, printed, outFile>>
    /\ UNCHANGED <<i, lat, ok, t0, recv, ev, loop, inflight, cb, timedOut>>
    /\ UNCHANGED <<now, hist, attempts, sumVars, srvVars>>

(***************************************************************************)
(* bench_mqtt (lines 54-89): the calling thread.                           *)
(***************************************************************************)
\* lines 57-60
StartMqtt == StartStrategy("MQTT", "mqtt_connect")

\* line 59: the constructor raises (a paho-mqtt without CallbackAPIVersion);
\* nothing catches it
MqttClientRaises ==
    /\ pc = "dispatch" /\ ~SweepOver
    /\ Proto = "MQTT" /\ NotInstalled("MQTT") = ""
    /\ Fault
    /\ Crash
    /\ FreshStrat
    /\ hist' = <<>>
    /\ active' = active \cup {cur}
    /\ attempts' = attempts + 1
    /\ UNCHANGED <<cfgVars, now, sumVars, srvVars>>

\* lines 71-74 without the try: a failure of connect leaves bench_mqtt
MqttConnectUncaught ==
    /\ pc = "mqtt_connect"
    /\ \/ /\ conn' = TRUE
          /\ pc' = "mqtt_subscribe"
          /\ hist' = Append(hist, Call("connect", 0))
          /\ UNCHANGED <<cfgVars, cur, rows, printed, outFile>>
          /\ UNCHANGED <<ret, active, faults>>
       \/ /\ Fault
          /\ conn' = conn
          /\ hist' = hist
          /\ Crash
          /\ active' = active
    /\ UNCHANGED <<i, lat, ok, t0, recv, ev, loop, inflight, cb, timedOut>>
    /\ UNCHANGED <<now, attempts, sumVars, srvVars>>

\* lines 71-74
MqttConnect ==
    /\ pc = "mqtt_connect"
    /\ \/ /\ conn' = TRUE
          /\ pc' = "mqtt_subscribe"
          /\ hist' = Append(hist, Call("connect", 0))
          /\ UNCHANGED <<ret, active, faults>>
       \/ /\ Fault
          /\ conn' = conn
          /\ hist' = hist
          /\ Return(Err("mqtt-connect-failed"))
    /\ UNCHANGED <<cfgVars, cur, rows, printed, outFile>>
    /\ UNCHANGED <<i, lat, ok, t0, recv, ev, loop, inflight, cb, timedOut>>
    /\ UNCHANGED <<now, attempts, sumVars, srvVars>>

\* lines 75-77 with a subscribe at QoS 0 whatever the combination
MqttSubscribeQosZero ==
    /\ pc = "mqtt_subscribe"
    /\ \/ /\ loop' = TRUE
          /\ pc' = "mqtt_loop"
          /\ hist' = hist \o <<Call("subscribe", 0), Call("loop_start", 0)>>
          /\ UNCHANGED <<cfgVars, cur, rows, printed, outFile, ret>>
          /\ faults' = faults
       \/ /\ Fault
          /\ Crash
          /\ UNCHANGED <<loop, hist>>
    /\ UNCHANGED <<i, lat, ok, t0, recv, ev, conn, inflight, cb, timedOut>>
    /\ UNCHANGED <<now, active, attempts, sumVars, srvVars>>

\* lines 75-77; an exception of subscribe is not caught
MqttSubscribe ==
    /\ pc = "mqtt_subscribe"
    /\ \/ /\ loop' = TRUE
          /\ pc' = "mqtt_loop"
          /\ hist' = hist \o <<Call("subscribe", Qos), Call("loop_start", 0)>>
          /\ UNCHANGED <<cfgVars, cur, rows, printed, outFile, ret>>
          /\ faults' = faults
       \/ /\ Fault
          /\ Crash
          /\ UNCHANGED <<loop, hist>>
    /\ UNCHANGED <<i, lat, ok, t0, recv, ev, conn, inflight, cb, timedOut>>
    /\ UNCHANGED <<now, active, attempts, sumVars, srvVars>>

\* lines 80-83
MqttPubBegin ==
    /\ pc = "mqtt_loop" /\ i < iterations
    /\ now' = now + simulate_delay(Scen)
    /\ t0' = now'
    /\ hist' = Append(hist, Delay(simulate_delay(Scen)))
    /\ pc' = "mqtt_publish"
    /\ UNCHANGED <<cfgVars, cur, rows, printed, outFile, ret>>
    /\ UNCHANGED <<i, lat, ok, recv, ev, conn, loop, inflight, cb, timedOut>>
    /\ UNCHANGED <<faults, active, attempts, sumVars, srvVars>>

\* f"{now_ms()}": the text of a float, which float(...) reads back as the
\* same float (Python prints the shortest text that round-trips)
FormatMs(t) == [text |-> t]
ParseMs(str) == str.text

\* props.UserProperty of line 82
Stamp(t) == << <<"t0", FormatMs(t)>> >>

\* a message on its way to the subscriber: its user properties and the
\* time it reaches the client
Msg(id, props, arrive) == [id |-> id, props |-> props, arrive |-> arrive]

\* what the broker does with a published message: loops it back once, not
\* at all, or twice; or publish raises
PublishOutcomes == {"sent", "lost", "dup", "raise"}

\* line 84; an exception of publish is not caught
MqttPublish ==
    /\ pc = "mqtt_publish"
    /\ \E outcome \in PublishOutcomes :
        /\ IF outcome = "sent" THEN faults' = faults ELSE Fault
        /\ IF outcome = "raise"
           THEN /\ Crash
                /\ UNCHANGED <<inflight, i, hist>>
           ELSE /\ inflight' = inflight \cup
                      CASE outcome = "sent" -> {Msg(2 * i, Stamp(t0), t0 + NetLatency)}
                        [] outcome = "dup" -> {Msg(2 * i, Stamp(t0), t0 + NetLatency),
                                               Msg(2 * i + 1, Stamp(t0), t0 + NetLatency)}
                        [] OTHER -> {}
                /\ hist' = Append(hist, Call("send", Qos))
                /\ i' = i + 1
                /\ pc' = "mqtt_loop"
                /\ UNCHANGED <<cfgVars, cur, rows, printed, outFile, ret>>
    /\ UNCHANGED <<lat, ok, t0, recv, ev, conn, loop, cb, timedOut>>
    /\ UNCHANGED <<now, active, attempts, sumVars, srvVars>>

\* line 86: the calling thread starts to wait on ev
MqttWait ==
    /\ pc = "mqtt_loop" /\ i >= iterations
    /\ pc' = "mqtt_wait"
    /\ hist' = Append(hist, Call("wait", 0))
    /\ UNCHANGED <<cfgVars, cur, rows, printed, outFile, ret>>
    /\ UNCHANGED <<stratVars, now, faults, active, attempts, sumVars, srvVars>>

\* line 86: ev is set
MqttWake ==
    /\ pc = "mqtt_wait" /\ ev
    /\ pc' = "mqtt_stop"
    /\ UNCHANGED <<cfgVars, cur, rows, printed, outFile, ret>>
    /\ UNCHANGED <<stratVars, now, histVars, sumVars, srvVars>>

\* line 86: the ceiling expires with ev not set.  A message that is still
\* on its way then is a late one, a fault of the network.
MqttTimeout ==
    /\ pc = "mqtt_wait" /\ ~ev
    /\ IF inflight = {} /\ ~cb.busy THEN faults' = faults ELSE Fault
    /\ now' = now + WaitCeilingMs
    /\ timedOut' = TRUE
    /\ pc' = "mqtt_stop"
    /\ UNCHANGED <<cfgVars, cur, rows, printed, outFile, ret>>
    /\ UNCHANGED <<i, lat, ok, t0, recv, ev, conn, loop, inflight, cb>>
    /\ UNCHANGED <<hist, active, attempts, sumVars, srvVars>>

\* line 87 with a loop_stop that does not wait for the loop thread
MqttLoopStopNoJoin ==
    /\ pc = "mqtt_stop"
    /\ loop' = FALSE
    /\ pc' = "mqtt_disconnect"
    /\ hist' = Append(hist, Call("loop_stop", 0))
    /\ UNCHANGED <<cfgVars, cur, rows, printed, outFile, ret>>
    /\ UNCHANGED <<i, lat, ok, t0, recv, ev, conn, inflight, cb, timedOut>>
    /\ UNCHANGED <<now, faults, active, attempts, sumVars, srvVars>>

\* line 87: loop_stop joins the loop thread, so it returns only when no
\* callback is in progress
MqttLoopStop ==
    /\ pc = "mqtt_stop"
    /\ ~cb.busy
    /\ loop' = FALSE
    /\ pc' = "mqtt_disconnect"
    /\ hist' = Append(hist, Call("loop_stop", 0))
    /\ UNCHANGED <<cfgVars, cur, rows, printed, outFile, ret>>
    /\ UNCHANGED <<i, lat, ok, t0, recv, ev, conn, inflight, cb, timedOut>>
    /\ UNCHANGED <<now, faults, active, attempts, sumVars, srvVars>>

\* a bench_mqtt that returns its result without line 87: the loop thread
\* may be inside on_message while line 89 reads recv and lat
MqttDisconnectNoStop ==
    /\ pc \in {"mqtt_stop", "mqtt_disconnect"}
    /\ conn' = FALSE
    /\ hist' = Append(hist, Call("disconnect", 0))
    /\ Return(Res(lat, recv, iterations))
    /\ UNCHANGED <<cfgVars, cur, rows, printed, outFile>>
    /\ UNCHANGED <<i, lat, ok, t0, recv, ev, loop, inflight, cb, timedOut>>
    /\ UNCHANGED <<now, faults, attempts, sumVars, srvVars>>

\* lines 88-89
MqttDisconnect ==
    /\ pc = "mqtt_disconnect"
    /\ conn' = FALSE
    /\ hist' = Append(hist, Call("disconnect", 0))
    /\ Return(Res(lat, recv, iterations))
    /\ UNCHANGED <<cfgVars, cur, rows, printed, outFile>>
    /\ UNCHANGED <<i, lat, ok, t0, recv, ev, loop, inflight, cb, timedOut>>
    /\ UNCHANGED <<now, faults, attempts, sumVars, srvVars>>

(***************************************************************************)
(* bench_mqtt: the loop thread and the broker.                             *)
(***************************************************************************)
\* another publisher's message on the topic, with or without a t0 property
ForeignArrives ==
    /\ pc \in {"mqtt_loop", "mqtt_wait"} /\ loop
    /\ Fault
    /\ \E props \in {<<>>, Stamp(now)} :
           inflight' = inflight \cup {Msg(100 + faults, props, now + NetLatency)}
    /\ UNCHANGED <<sweepVars, now, hist, active, attempts, sumVars, srvVars>>
    /\ UNCHANGED <<i, lat, ok, t0, recv, ev, conn, loop, cb, timedOut>>

\* what now_ms() returns in the callback for message m: the time m reaches
\* the client, or the present when the wait has already timed out
ReceiveTime(m) == IF timedOut THEN Max2(now, m.arrive) ELSE m.arrive

\* on_message with a latency taken from the send time of the latest
\* publish instead of the one the message carries
OnMessageRecordLastT0 ==
    /\ loop /\ ~cb.busy /\ pc # "crashed"
    /\ \E m \in inflight :
        /\ inflight' = inflight \ {m}
        /\ lat' = Append(lat, IF m.props # <<>>
                              THEN ReceiveTime(m) - t0
                              ELSE 0)
    /\ cb' = [busy |-> TRUE, owner |-> cur, done |-> cb.done]
    /\ UNCHANGED <<sweepVars, now, histVars, sumVars, srvVars>>
    /\ UNCHANGED <<i, ok, t0, recv, ev, conn, loop, timedOut>>

\* on_message, lines 64-66
OnMessageRecord ==
    /\ loop /\ ~cb.busy /\ pc # "crashed"
    /\ \E m \in inflight :
        /\ inflight' = inflight \ {m}
        /\ lat' = Append(lat, IF m.props # <<>>
                              THEN ReceiveTime(m) - ParseMs(m.props[1][2])
                              ELSE 0)
    /\ cb' = [busy |-> TRUE, owner |-> cur, done |-> cb.done]
    /\ UNCHANGED <<sweepVars, now, histVars, sumVars, srvVars>>
    /\ UNCHANGED <<i, ok, t0, recv, ev, conn, loop, timedOut>>

\* on_message, lines 67-69
OnMessageCount ==
    /\ cb.busy /\ pc # "crashed"
    /\ recv' = recv + 1
    /\ ev' = (ev \/ recv' >= iterations)
    /\ cb' = [busy |-> FALSE, owner |-> 0, done |-> cb.done + 1]
    /\ UNCHANGED <<sweepVars, now, histVars, sumVars, srvVars>>
    /\ UNCHANGED <<i, lat, ok, t0, conn, loop, inflight, timedOut>>

(***************************************************************************)
(* The sweep.                                                              *)
(***************************************************************************)
Next ==
    \/ SkipCombo
    \/ Collect
    \/ Persist
    \/ StartHttp
    \/ HttpIterBegin
    \/ HttpPost
    \/ HttpReturn
    \/ StartCoap
    \/ CoapCreate
    \/ CoapIterBegin
    \/ CoapRequest
    \/ CoapShutdown
    \/ StartMqtt
    \/ MqttClientRaises
    \/ MqttConnect
    \/ MqttSubscribe
    \/ MqttPubBegin
    \/ MqttPublish
    \/ MqttWait
    \/ MqttWake
    \/ MqttTimeout
    \/ MqttLoopStop
    \/ MqttDisconnect
    \/ ForeignArrives
    \/ OnMessageRecord
    \/ OnMessageCount

Spec == Init /\ [][Next]_vars

(***************************************************************************)
(* The sweep over the complete lists of lines 157-159, in an environment   *)
(* without faults.                                                         *)
(***************************************************************************)
FullInit ==
    /\ \E all \in BOOLEAN, given \in GivenLists :
           protocols = SelectProtocols(all, given)
    /\ iterations \in 0..MaxIter
    /\ installed \in InstalledSets
    /\ scenarios = AllScenarios
    /\ payloads = AllPayloads
    /\ qos_list = AllQos
    /\ faults = MaxFaults
    /\ Start

FullNext ==
    \/ SkipCombo
    \/ Collect
    \/ Persist
    \/ StartHttp
    \/ HttpIterBegin
    \/ HttpPost
    \/ HttpReturn
    \/ StartCoap
    \/ CoapCreate
    \/ CoapIterBegin
    \/ CoapRequest
    \/ CoapShutdown
    \/ StartMqtt
    \/ MqttConnect
    \/ MqttSubscribe
    \/ MqttPubBegin
    \/ MqttPublish
    \/ MqttWait
    \/ MqttWake
    \/ MqttTimeout
    \/ MqttLoopStop
    \/ MqttDisconnect
    \/ OnMessageRecord
    \/ OnMessageCount

FullSpec == FullInit /\ [][FullNext]_vars

(***************************************************************************)
(* The sweep of the HTTP protocol against http_server.py over a network    *)
(* without faults.                                                         *)
(***************************************************************************)
PairInit ==
    /\ protocols = <<"HTTP">>
    /\ iterations \in 0..MaxIter
    /\ installed \in {n \in InstalledSets : n.mqtt /\ n.coap}
    /\ scenarios = AllScenarios
    /\ payloads = AllPayloads
    /\ qos_list = AllQos
    /\ faults = MaxFaults
    /\ Start

PairNext ==
    \/ SkipCombo
    \/ Collect
    \/ Persist
    \/ StartHttp
    \/ HttpIterBegin
    \/ HttpPostIngest
    \/ HttpReturn

PairSpec == PairInit /\ [][PairNext]_vars

(***************************************************************************)
(* http_server.py on its own (app.run(threaded=True)): up to MaxThreads    *)
(* handler threads serve /ingest, /stats and /reset requests at the same   *)
(* time.  A statement stats[f] += n is a read followed by a write.         *)
(* start_time and requests_per_second are left out.                        *)
(***************************************************************************)
Inc(f, n) == [f |-> f, op |-> "inc", by |-> n]
Set(f) == [f |-> f, op |-> "set", by |-> 0]

\* the statements under stats_lock of lines 98-101, of lines 82, 91, 119
\* and 125, of reset_stats (lines 133-136) and of get_stats (line 56)
AcceptOps(size) ==
    <<Inc("total_requests", 1), Inc("successful_requests", 1),
      Inc("total_bytes", size)>>
FailOps == <<Inc("failed_requests", 1)>>
ResetOps ==
    <<Set("total_requests"), Set("successful_requests"),
      Set("failed_requests"), Set("total_bytes")>>
CopyOps == <<[f |-> "", op |-> "copy", by |-> 0]>>

\* the /ingest requests the server is sent: a JSON object with device_id of
\* two sizes, the body bench_http builds, a JSON array that holds the
\* string device_id, and a body that is not JSON
IngestRequests ==
    {[is_json |-> TRUE,
      data |-> [type |-> "object", members |-> {"device_id", "payload"}],
      size |-> 25 + AllPayloads[k]] : k \in 1..2}
    \cup {HttpRequest(0, AllPayloads[1])}
    \cup {[is_json |-> TRUE,
           data |-> [type |-> "array", members |-> {"device_id"}],
           size |-> 13]}
    \cup {[is_json |-> FALSE,
           data |-> [type |-> "object", members |-> {}],
           size |-> 5]}

\* a request reaches an idle handler thread
SrvArrive(t) ==
    /\ pc = "serving"
    /\ handlers[t].pc = "idle"
    /\ served.requests < MaxRequests
    /\ \/ \E r \in IngestRequests :
              handlers' = [handlers EXCEPT ![t] =
                  [Idle EXCEPT !.pc = "validate", !.kind = "ingest",
                               !.is_json = r.is_json, !.data = r.data,
                               !.size = r.size]]
       \/ handlers' = [handlers EXCEPT ![t] =
              [Idle EXCEPT !.pc = "lock", !.kind = "stats", !.todo = CopyOps]]
       \/ handlers' = [handlers EXCEPT ![t] =
              [Idle EXCEPT !.pc = "lock", !.kind = "reset", !.todo = ResetOps]]
    /\ served' = [served EXCEPT !.requests = @ + 1]
    /\ UNCHANGED <<benchVars, stats, lock>>

\* ingest_data, lines 79-95
IngestValidate(t) ==
    /\ handlers[t].pc = "validate"
    /\ LET h == handlers[t] IN
       handlers' = [handlers EXCEPT ![t] =
           IF ~h.is_json \/ h.data.members = {}
              \/ "device_id" \notin h.data.members
           THEN [h EXCEPT !.pc = "lock", !.todo = FailOps, !.status = 400]
           ELSE [h EXCEPT !.pc = "lock", !.todo = AcceptOps(h.size)]]
    /\ UNCHANGED <<benchVars, stats, lock, served>>

\* what the requests served add up to once handler h has the lock
ServedWith(h) ==
    CASE h.kind = "reset" ->
             [served EXCEPT !.accepted = 0, !.bytes = 0, !.failed = 0]
      [] h.kind = "ingest" /\ h.status # 0 ->
             [served EXCEPT !.failed = @ + 1]
      [] h.kind = "ingest" /\ h.status = 0 /\ h.data.type = "object" ->
             [served EXCEPT !.accepted = @ + 1, !.bytes = @ + h.size]
      [] h.kind = "ingest" /\ h.status = 0 /\ h.data.type # "object" ->
             [served EXCEPT !.arrays = @ + 1]
      [] OTHER -> served

\* a handler that goes on without taking stats_lock
SrvAcquireNoLock(t) ==
    /\ handlers[t].pc = "lock"
    /\ lock' = lock
    /\ handlers' = [handlers EXCEPT ![t].pc = "locked"]
    /\ served' = ServedWith(handlers[t])
    /\ UNCHANGED <<benchVars, stats>>

\* with stats_lock: the thread waits until the lock is free and takes it
SrvAcquire(t) ==
    /\ handlers[t].pc = "lock"
    /\ lock = 0
    /\ lock' = t
    /\ handlers' = [handlers EXCEPT ![t].pc = "locked"]
    /\ served' = ServedWith(handlers[t])
    /\ UNCHANGED <<benchVars, stats>>

\* stats[f] += n: the read
SrvRead(t) ==
    /\ handlers[t].pc = "locked"
    /\ handlers[t].todo # <<>>
    /\ Head(handlers[t].todo).op = "inc"
    /\ handlers' = [handlers EXCEPT ![t].pc = "write",
                                    ![t].tmp = stats[Head(handlers[t].todo).f]]
    /\ UNCHANGED <<benchVars, stats, lock, served>>

\* stats[f] += n: the write
SrvWrite(t) ==
    /\ handlers[t].pc = "write"
    /\ LET o == Head(handlers[t].todo) IN
       stats' = [stats EXCEPT ![o.f] = handlers[t].tmp + o.by]
    /\ handlers' = [handlers EXCEPT ![t].pc = "locked",
                                    ![t].todo = Tail(handlers[t].todo)]
    /\ UNCHANGED <<benchVars, lock, served>>

\* stats[f] = 0 in reset_stats
SrvAssign(t) ==
    /\ handlers[t].pc = "locked"
    /\ handlers[t].todo # <<>>
    /\ Head(handlers[t].todo).op = "set"
    /\ stats' = [stats EXCEPT ![Head(handlers[t].todo).f] = 0]
    /\ handlers' = [handlers EXCEPT ![t].todo = Tail(handlers[t].todo)]
    /\ UNCHANGED <<benchVars, lock, served>>

\* stats.copy() in get_stats
SrvCopy(t) ==
    /\ handlers[t].pc = "locked"
    /\ handlers[t].todo # <<>>
    /\ Head(handlers[t].todo).op = "copy"
    /\ handlers' = [handlers EXCEPT ![t].snap = stats,
                                    ![t].todo = Tail(handlers[t].todo)]
    /\ UNCHANGED <<benchVars, stats, lock, served>>

\* the end of the with block
SrvRelease(t) ==
    /\ handlers[t].pc = "locked"
    /\ handlers[t].todo = <<>>
    /\ lock' = IF lock = t THEN 0 ELSE lock
    /\ handlers' = [handlers EXCEPT ![t] =
           IF handlers[t].kind = "ingest" /\ handlers[t].status = 0
           THEN [@ EXCEPT !.pc = "log"]
           ELSE [@ EXCEPT !.pc = "respond",
                          !.status = IF @ = 0 THEN 200 ELSE @]]
    /\ UNCHANGED <<benchVars, stats, served>>

\* ingest_data, lines 104-114 and 122-126: data.get raises AttributeError
\* when the body is not an object, and the handler of line 122 counts the
\* request as failed and answers 500
IngestLog(t) ==
    /\ handlers[t].pc = "log"
    /\ handlers' = [handlers EXCEPT ![t] =
           IF handlers[t].data.type = "object"
           THEN [@ EXCEPT !.pc = "respond", !.status = 200]
           ELSE [@ EXCEPT !.pc = "lock", !.todo = FailOps, !.status = 500]]
    /\ UNCHANGED <<benchVars, stats, lock, served>>

\* the response is sent
SrvRespond(t) ==
    /\ handlers[t].pc = "respond"
    /\ handlers' = [handlers EXCEPT ![t] = Idle]
    /\ UNCHANGED <<benchVars, stats, lock, served>>

ServerInit ==
    /\ protocols = <<"HTTP">>
    /\ iterations = 0
    /\ installed = [requests |-> TRUE, mqtt |-> TRUE, coap |-> TRUE]
    /\ scenarios = AllScenarios
    /\ payloads = AllPayloads
    /\ qos_list = AllQos
    /\ faults = 0
    /\ cur = [p |-> 1, s |-> 1, y |-> 1, q |-> 1]
    /\ pc = "serving"
    /\ rows = <<>>
    /\ printed = <<>>
    /\ outFile = PriorFile
    /\ ret = NoRes
    /\ i = 0 /\ lat = <<>> /\ ok = 0 /\ t0 = 0 /\ recv = 0 /\ ev = FALSE
    /\ conn = FALSE /\ loop = FALSE /\ inflight = {} /\ cb = NoCb
    /\ timedOut = FALSE
    /\ now = 0
    /\ hist = <<>> /\ active = {} /\ attempts = 0
    /\ sumIn = NoRes
    /\ sumOut = summarize("", "", 0, None, NoRes)
    /\ ServerStart

ServerNext ==
    \/ \E t \in Threads : SrvArrive(t)
    \/ \E t \in Threads : IngestValidate(t)
    \/ \E t \in Threads : SrvAcquire(t)
    \/ \E t \in Threads : SrvRead(t)
    \/ \E t \in Threads : SrvWrite(t)
    \/ \E t \in Threads : SrvAssign(t)
    \/ \E t \in Threads : SrvCopy(t)
    \/ \E t \in Threads : SrvRelease(t)
    \/ \E t \in Threads : IngestLog(t)
    \/ \E t \in Threads : SrvRespond(t)

ServerSpec == ServerInit /\ [][ServerNext]_vars

(***************************************************************************)
(* summarize called on its own, on every result with at most MaxLen        *)
(* latencies in 0..MaxLat and counts in 0..MaxCount, and on the result of  *)
(* a run of the default 50 iterations that all succeeded in 5 ms.          *)
(***************************************************************************)
\* the result of n iterations that all succeeded with a latency of ms
UniformRun(n, ms) == Res([j \in 1..n |-> ms], n, n)

SumInputs ==
    {Res(l, o, n) :
        l \in UNION {[1..len -> 0..MaxLat] : len \in 0..MaxLen},
        o \in 0..MaxCount, n \in 0..MaxCount}
    \cup {UniformRun(DefaultIterations, 5)}

SumInit ==
    /\ protocols = <<"HTTP">>
    /\ iterations = 0
    /\ installed = [requests |-> TRUE, mqtt |-> TRUE, coap |-> TRUE]
    /\ scenarios = AllScenarios
    /\ payloads = AllPayloads
    /\ qos_list = AllQos
    /\ faults = 0
    /\ cur = [p |-> 1, s |-> 1, y |-> 1, q |-> 1]
    /\ pc = "summarize"
    /\ rows = <<>>
    /\ printed = <<>>
    /\ outFile = PriorFile
    /\ ret = NoRes
    /\ i = 0 /\ lat = <<>> /\ ok = 0 /\ t0 = 0 /\ recv = 0 /\ ev = FALSE
    /\ conn = FALSE /\ loop = FALSE /\ inflight = {} /\ cb = NoCb
    /\ timedOut = FALSE
    /\ now = 0
    /\ hist = <<>> /\ active = {} /\ attempts = 0
    /\ sumIn \in SumInputs
    /\ sumOut = summarize("", "", 0, None, NoRes)
    /\ ServerStart

SummarizeCall ==
    /\ pc = "summarize"
    /\ sumOut' = summarize(Proto, Scen, Payload, Qos, sumIn)
    /\ pc' = "summarized"
    /\ UNCHANGED <<cfgVars, cur, rows, printed, outFile, ret>>
    /\ UNCHANGED <<stratVars, now, histVars, sumIn, srvVars>>

SumNext == SummarizeCall

SumSpec == SumInit /\ [][SumNext]_vars

(***************************************************************************)
(* Properties.                                                             *)
(***************************************************************************)
StrategyPcs ==
    {"http_loop", "http_post", "coap_create", "coap_loop", "coap_request",
     "mqtt_connect", "mqtt_subscribe", "mqtt_loop", "mqtt_publish",
     "mqtt_wait", "mqtt_stop", "mqtt_disconnect"}

\* the strategy locals and hist belong to the combination at cur
InCombination == pc \in StrategyPcs \cup {"collect", "crashed"}

Count(s, kind) == Cardinality({j \in 1..Len(s) : s[j].e = kind})

SampleKinds == {"ok", "status", "timeout", "error"}

Samples == {j \in 1..Len(hist) : hist[j].e \in SampleKinds}

\* C1: at most one combination is active at any moment: the strategy call
\* of a combination has returned before the next one starts, and the loop
\* thread and a receive callback in progress always belong to the active
\* combination, so none runs once its strategy call has returned.
C1_OneCombinationActive ==
    /\ active \subseteq {cur}
    /\ active # {} => pc \in StrategyPcs \cup {"crashed"}
    /\ pc \in {"dispatch", "collect", "done", "output_failed"} => active = {}
    /\ loop => cur \in active /\ Proto = "MQTT"
    /\ cb.busy => cur \in active /\ cb.owner = cur

\* a further combination is running after an MQTT combination whose
\* callbacks received messages has returned
C1_Witness ==
    /\ attempts >= 2
    /\ active = {cur}
    /\ rows # <<>>
    /\ rows[Len(rows)].protocol = "MQTT"
    /\ rows[Len(rows)].iterations >= 1

\* C2: no error raised inside a combination leaves it and ends the sweep.
C2_NoErrorEndsSweep == pc # "crashed"

NotInstalledReasons ==
    {"requests-not-installed", "mqtt-not-installed", "coap-not-installed",
     "unknown-protocol"}

\* C3: once a combination has been skipped for a missing capability or an
\* unknown protocol, the sweep still goes on through the combinations of
\* the other protocols and ends normally.
C3_SkipThenNormalEnd ==
    (\E j \in 1..Len(printed) :
        printed[j].kind = "skip" /\ printed[j].reason \in NotInstalledReasons)
    => pc # "crashed"

\* C4: every row with at least one latency has p50 <= p95 <= max.
C4_PercentileOrder ==
    \A j \in 1..Len(rows) :
        rows[j].iterations >= 1 =>
            /\ rows[j].latency_p50_ms <= rows[j].latency_p95_ms
            /\ rows[j].latency_p95_ms <= rows[j].latency_max_ms

\* C5: a strategy never returns more samples with a positive latency (the
\* iterations of its row), or more successes, than the number of messages
\* it attempted; stated here for the runs that attempted at least one.
C5_CountsWithinSent ==
    (pc = "collect" /\ ~ret.none /\ ret.sent >= 1) =>
        /\ Len(PositiveLat(ret)) <= ret.sent
        /\ ret.ok <= ret.sent

\* the loss of the result handed to summarize, recomputed: the hundredths
\* of a percent nearest to 100 * (1 - ok / d), and 0 when that is negative
IsLossOver(l, o, d) ==
    IF o >= d THEN l = 0
    ELSE /\ 2 * (l * d - 10000 * (d - o)) <= d
         /\ 2 * (10000 * (d - o) - l * d) < d

\* C6 as stated: the loss is in [0, 100], is 100 * max(0, 1 - ok / sent),
\* and is 0 whenever every attempted message succeeded.
C6_LossAsStated ==
    pc = "summarized" =>
        /\ 0 <= sumOut.loss_percent /\ sumOut.loss_percent <= 10000
        /\ sumIn.sent >= 1 => IsLossOver(sumOut.loss_percent, sumIn.ok, sumIn.sent)
        /\ sumIn.ok = sumIn.sent => sumOut.loss_percent = 0

\* C6, amended: the loss is in [0, 100] and is 100 * max(0, 1 - ok / d)
\* with the divisor d = max(1, sent); it is 0 when sent >= 1 and every
\* attempted message succeeded, and 100 when nothing was sent and nothing
\* succeeded.
C6_Loss ==
    pc = "summarized" =>
        /\ 0 <= sumOut.loss_percent /\ sumOut.loss_percent <= 10000
        /\ IsLossOver(sumOut.loss_percent, sumIn.ok,
                      IF sumIn.sent >= 1 THEN sumIn.sent ELSE 1)
        /\ (sumIn.sent >= 1 /\ sumIn.ok = sumIn.sent) => sumOut.loss_percent = 0
        /\ (sumIn.sent = 0 /\ sumIn.ok = 0) => sumOut.loss_percent = 10000

\* summarize has clamped the loss of a result with more successes than
\* messages sent
C6_Witness ==
    /\ pc = "summarized"
    /\ sumIn.ok > sumIn.sent
    /\ sumIn.sent >= 1
    /\ sumOut.loss_percent = 0

\* C7: under high_latency every recorded latency is at least 150 ms.
C7_HighLatencyFloor ==
    (InCombination /\ Scen = "high_latency") =>
        \A j \in 1..Len(lat) : lat[j] >= 150

\* the delay the claim gives for a scenario
ClaimedDelay(scenario) ==
    CASE scenario = "normal" -> 0
      [] scenario = "high_latency" -> 150
      [] scenario = "jittery" -> 10

\* hist without its samples: the delays and the sends
RECURSIVE DelaysAndSends(_)
DelaysAndSends(s) ==
    IF s = <<>> THEN <<>>
    ELSE IF Head(s).e \in {"delay", "send"}
         THEN <<Head(s).e>> \o DelaysAndSends(Tail(s))
         ELSE DelaysAndSends(Tail(s))

\* C8: in each strategy every iteration applies the delay of the scenario
\* once, before its send: delays and sends alternate, starting with a
\* delay, every delay is the one of the scenario (0, 150 or 10 ms), and a
\* strategy that ran its N iterations has applied N delays.
C8_DelayOncePerMessage ==
    InCombination =>
        LET ds == DelaysAndSends(hist) IN
        /\ \A j \in 1..Len(ds) : ds[j] = (IF j % 2 = 1 THEN "delay" ELSE "send")
        /\ \A j \in 1..Len(hist) :
               hist[j].e = "delay" => hist[j].ms = ClaimedDelay(Scen)
        /\ Count(hist, "send") = i
        /\ (pc = "collect" /\ ~ret.none) =>
               /\ Count(hist, "delay") = iterations
               /\ Count(hist, "send") = iterations

\* a strategy has run two or more iterations under the jittery scenario
C8_Witness ==
    /\ pc = "collect" /\ ~ret.none
    /\ Scen = "jittery"
    /\ iterations >= 2
    /\ Count(hist, "delay") = iterations

\* C9: in bench_http and _bench_coap_async every iteration records one
\* sample, whatever the outcome of the call; a call that timed out or
\* raised is recorded as 2000 ms and not counted in ok; so a finished run
\* returns sent samples and at most sent successes.
C9_OneSamplePerIteration ==
    (InCombination /\ Proto \in {"HTTP", "COAP"}) =>
        /\ Len(lat) = i
        /\ Cardinality(Samples) = i
        /\ \A j \in Samples :
               hist[j].e \in {"timeout", "error"} =>
                   hist[j].ms = 2000 /\ ~hist[j].counted
        /\ ok = Cardinality({j \in Samples : hist[j].counted})
        /\ (pc = "collect" /\ ~ret.none) =>
               /\ Len(ret.lat) = iterations
               /\ ret.sent = iterations
               /\ ret.ok <= iterations

\* a finished run of two iterations, one of which timed out
C9_Witness ==
    /\ pc = "collect" /\ ~ret.none
    /\ Proto \in {"HTTP", "COAP"}
    /\ iterations = 2
    /\ \E j \in Samples : hist[j].e = "timeout"
    /\ \E j \in Samples : hist[j].e = "ok"

\* C10: every failure of a message in bench_http and _bench_coap_async (a
\* timeout, a transport error, a response that is not a success) is
\* recorded as 2000 ms and not counted in ok.
C10_FailuresPenalised ==
    (InCombination /\ Proto \in {"HTTP", "COAP"}) =>
        \A j \in Samples :
            hist[j].e # "ok" => hist[j].ms = 2000 /\ ~hist[j].counted

\* C11: in bench_mqtt the calling thread leaves the wait of line 86 only for
\* the teardown, and only when the signal is set or the ceiling has expired;
\* it waits for the ceiling only while fewer than iterations messages have
\* been received (whichever comes first); and the signal is set only when
\* recv >= iterations.
C11_WaitUntilCountOrCeiling ==
    [][ /\ (pc = "mqtt_wait" /\ pc' # "mqtt_wait") =>
               (pc' = "mqtt_stop" /\ (ev \/ timedOut'))
        /\ (pc = "mqtt_wait" /\ timedOut') => recv < iterations
        /\ ev' => recv' >= iterations ]_vars

\* the same for the runs that publish at least one message
C11_WaitWithMessages ==
    [][ /\ (pc = "mqtt_wait" /\ pc' # "mqtt_wait") =>
               (pc' = "mqtt_stop" /\ (ev \/ timedOut'))
        /\ (pc = "mqtt_wait" /\ timedOut' /\ iterations >= 1) => recv < iterations
        /\ ev' => recv' >= iterations ]_vars

\* C12: recv and lat of bench_mqtt lose no update and are read by the
\* calling thread only when the loop thread can no longer write them: recv
\* is the number of callbacks that have completed, lat has one entry per
\* callback (one more while a callback is between lines 66 and 67), no
\* callback is in progress and the loop is stopped when line 89 reads
\* them, and the result returned has ok = completed callbacks = len(lat).
C12_NoLostUpdate ==
    (InCombination /\ Proto = "MQTT") =>
        /\ recv = cb.done
        /\ Len(lat) = recv + (IF cb.busy THEN 1 ELSE 0)
        /\ pc \in {"mqtt_disconnect", "collect"} => (~cb.busy /\ ~loop)
        /\ (pc = "collect" /\ ~ret.none) =>
               /\ ret.ok = cb.done
               /\ ret.ok = Len(ret.lat)

\* bench_mqtt has returned after a wait that timed out and two callbacks
\* that completed, one of them after the timeout
C12_Witness ==
    /\ pc = "collect" /\ ~ret.none /\ Proto = "MQTT"
    /\ timedOut
    /\ ret.ok = 2
    /\ ev

\* the messages bench_mqtt itself published (the others come from another
\* publisher), and the time such a message was published
OwnMessage(m) == m.id < 100
PublishedAt(m) == m.arrive - NetLatency

C14_ConnectFailureSkipsOne ==
    [][ /\ (pc = "mqtt_connect" /\ faults' # faults) =>
               /\ pc' = "collect"
               /\ ret'.none /\ ret'.err = "mqtt-connect-failed"
               /\ hist' = <<>> /\ i' = 0 /\ inflight' = {}
               /\ ~loop' /\ ~conn'
               /\ rows' = rows /\ cur' = cur
        /\ (pc = "collect" /\ ret.none /\ pc' # pc) =>
               /\ pc' = "dispatch"
               /\ rows' = rows
               /\ cur' = Advance(cur)
               /\ printed' = Append(printed, Line("skip", ret.err)) ]_vars

\* a sweep that skipped a combination for a failed connect has gone on
\* and ended with rows of later combinations
C14_Witness ==
    /\ pc = "done"
    /\ rows # <<>>
    /\ \E j \in 1..Len(printed) : printed[j].reason = "mqtt-connect-failed"

\* C15: whenever control is back in main, by a return of the strategy or
\* by an exception that left it, the connection or session the strategy
\* opened is closed and the loop thread of bench_mqtt is stopped.
C15_TornDownOnExit ==
    pc \in {"dispatch", "collect", "done", "output_failed", "crashed"} =>
        (~conn /\ ~loop)

\* C16: when main has ended its sweep and left the result sink, the table
\* has been written to args.output if and only if the sweep produced a
\* row, and then holds exactly the rows; with no row the warning has been
\* printed, nothing was written and the file of a prior run is as it was.
C16_WrittenIffRows ==
    pc \in {"done", "output_failed"} =>
        /\ outFile.written <=> rows # <<>>
        /\ outFile.written => outFile.rows = rows
        /\ rows = <<>> =>
               /\ outFile = PriorFile
               /\ printed # <<>> /\ printed[Len(printed)].kind = "warn"

\* the number of QoS values the claim gives a protocol, the number of
\* combinations of the protocol at position p of the list, and the place
\* of combination c in the product protocol x scenario x payload x QoS
\* taken in lexicographic order
ClaimedQosCount(proto) == IF proto = "MQTT" THEN Len(qos_list) ELSE 1

ComboCount(p) ==
    Len(scenarios) * Len(payloads) * ClaimedQosCount(protocols[p])

CombosBefore(p) == SumSeq([k \in 1..(p - 1) |-> ComboCount(k)])

Rank(c) ==
    CombosBefore(c.p)
    + ((c.s - 1) * Len(payloads) + (c.y - 1)) * ClaimedQosCount(protocols[c.p])
    + c.q

\* C17: the sweep attempts the combinations of the product protocol x
\* scenario x payload x QoS one by one in lexicographic order, the QoS
\* dimension being the QoS list for MQTT and a single value None for any
\* other protocol: the combination being attempted is always a member of
\* the product and the n-th attempt is the n-th member; a sweep that ran
\* to its end has attempted them all, 45 for the built-in lists and the
\* three protocols.
C17_CartesianSweep ==
    /\ ~SweepOver =>
           /\ cur.s \in 1..Len(scenarios) /\ cur.y \in 1..Len(payloads)
           /\ cur.q \in 1..ClaimedQosCount(Proto)
           /\ (Proto # "MQTT") => Qos = None
           /\ (Proto = "MQTT") => Qos = qos_list[cur.q]
           /\ Rank(cur) = (IF pc = "dispatch" THEN attempts + 1 ELSE attempts)
    /\ SweepOver =>
           /\ attempts = CombosBefore(Len(protocols) + 1)
           /\ (protocols = <<"HTTP", "MQTT", "COAP">>
                /\ scenarios = AllScenarios /\ payloads = AllPayloads
                /\ qos_list = AllQos) => attempts = 45

\* the sweep of the three protocols over the built-in lists has ended
C17_Witness ==
    /\ pc = "done"
    /\ protocols = <<"HTTP", "MQTT", "COAP">>
    /\ Len(payloads) = 3 /\ Len(qos_list) = 3
    /\ attempts = 45
    /\ Len(rows) + Len(printed) = 46

\* the place in the sweep of the combination a row was made for (the
\* protocol lists swept here name no protocol twice)
IndexOf(seq, x) == CHOOSE k \in 1..Len(seq) : seq[k] = x

RowRank(r) ==
    Rank([p |-> IndexOf(protocols, r.protocol),
          s |-> IndexOf(scenarios, r.scenario),
          y |-> IndexOf(payloads, r.payload_bytes),
          q |-> IF r.qos = None THEN 1 ELSE IndexOf(qos_list, r.qos)])

\* C18: rows is append-only and in sweep order.  Every step leaves rows
\* alone, except the step of main that takes a result a strategy
\* returned, which appends one row for the combination at hand (its
\* protocol, scenario, payload, QoS and the count of positive latencies of
\* that result) and leaves the earlier rows as they were; a step that
\* takes no result appends nothing; so the rows are those of the
\* combinations that returned a result so far, each once, in the order of
\* the sweep.
C18_RowsAppendOnly ==
    [][ /\ (pc = "collect" /\ ~ret.none /\ pc' # pc) =>
               /\ Len(rows') = Len(rows) + 1
               /\ SubSeq(rows', 1, Len(rows)) = rows
               /\ rows'[Len(rows')].protocol = Proto
               /\ rows'[Len(rows')].scenario = Scen
               /\ rows'[Len(rows')].payload_bytes = Payload
               /\ rows'[Len(rows')].qos = Qos
               /\ rows'[Len(rows')].iterations = Len(PositiveLat(ret))
               /\ RowRank(rows'[Len(rows')]) = attempts
        /\ ~(pc = "collect" /\ ~ret.none /\ pc' # pc) => rows' = rows
        /\ rows' # rows =>
               \A j, k \in 1..Len(rows') :
                   j < k => RowRank(rows'[j]) < RowRank(rows'[k]) ]_vars

\* a sweep has ended with rows of two protocols and a skipped combination
\* between them
C18_Witness ==
    /\ pc = "done"
    /\ Len(rows) >= 2
    /\ rows[1].protocol # rows[Len(rows)].protocol
    /\ \E j \in 1..Len(printed) : printed[j].protocol = "MQTT"

\* C19: for a run of 50 iterations that all succeeded with a latency of
\* 5 ms, summarize gives iterations = 50, p50 = p95 = 5, loss = 0 and a
\* throughput of 200 messages per second (50 / 0.25 s).
C19_FiftyAtFiveMs ==
    (pc = "summarized" /\ sumIn = UniformRun(50, 5)) =>
        /\ sumOut.iterations = 50
        /\ sumOut.latency_p50_ms = 5
        /\ sumOut.latency_p95_ms = 5
        /\ sumOut.loss_percent = 0
        /\ sumOut.throughput_msg_per_s = 200 * 100

\* summarize has been called on a result of 50 latencies of 5 ms, 50
\* successes and 50 sent
C19_Witness ==
    /\ pc = "summarized"
    /\ Len(sumIn.lat) = 50 /\ \A j \in 1..50 : sumIn.lat[j] = 5
    /\ sumIn.ok = 50 /\ sumIn.sent = 50
    /\ sumOut.iterations = 50

\* C20: every request bench_http builds is answered 200 by the /ingest
\* handler of http_server.py, so against that server and over a sound
\* network every request is counted in ok and none in the server's
\* failed_requests.
C20_IngestAcceptsRequests ==
    /\ (pc = "collect" /\ ~ret.none) => ret.ok = ret.sent
    /\ stats.failed_requests = 0

\* the calls of the MQTT client in hist, in order, without the delays
RECURSIVE ClientCalls(_)
ClientCalls(s) ==
    IF s = <<>> THEN <<>>
    ELSE IF Head(s).e = "delay" THEN ClientCalls(Tail(s))
         ELSE <<Head(s).e>> \o ClientCalls(Tail(s))

\* the order the claim gives for a run of n publishes
ClaimedOrder(n) ==
    <<"connect", "subscribe", "loop_start">>
    \o [j \in 1..n |-> "send"]
    \o <<"wait", "loop_stop", "disconnect">>

IsPrefix(a, b) == Len(a) <= Len(b) /\ SubSeq(b, 1, Len(a)) = a

\* C21: the calls bench_mqtt makes on its client follow the order connect,
\* subscribe, loop_start, iterations publishes, wait, loop_stop,
\* disconnect at every moment of a run, and a run that returned a result
\* has made them all; the subscribe and every publish pass the QoS of the
\* combination, and the row made from the result records that QoS.
C21_OrderAndQos ==
    [][ /\ (InCombination' /\ Proto' = "MQTT") =>
               /\ IsPrefix(ClientCalls(hist'), ClaimedOrder(iterations'))
               /\ \A j \in 1..Len(hist') :
                      hist'[j].e \in {"subscribe", "send"} => hist'[j].ms = Qos'
               /\ (pc' = "collect" /\ ~ret'.none) =>
                      ClientCalls(hist') = ClaimedOrder(iterations')
        /\ (pc = "collect" /\ ~ret.none /\ pc' # pc /\ Proto = "MQTT") =>
               rows'[Len(rows')].qos = Qos ]_vars

\* bench_mqtt has returned the result of a run of two publishes at a QoS
\* above 0
C21_Witness ==
    /\ pc = "collect" /\ ~ret.none /\ Proto = "MQTT"
    /\ iterations = 2 /\ Qos = 2
    /\ Count(hist, "send") = 2 /\ Count(hist, "disconnect") = 1

\* C22: bench_mqtt returns a result also when its wait timed out, and
\* when that result has no positive latency (nothing was received, or
\* only messages recorded as 0 or less) main appends a row for it like
\* for any other: iterations 0, no percentile and no maximum, throughput
\* 0, and a loss of 100 percent when nothing was received.
C22_EmptyRunRow ==
    [][ /\ (pc = "mqtt_disconnect" /\ pc' # pc) =>
               (pc' = "collect" /\ ~ret'.none /\ ret'.sent = iterations)
        /\ (pc = "collect" /\ pc' # pc /\ Proto = "MQTT" /\ ~ret.none
            /\ PositiveLat(ret) = <<>>) =>
               /\ Len(rows') = Len(rows) + 1
               /\ SubSeq(rows', 1, Len(rows)) = rows
               /\ rows'[Len(rows')].protocol = "MQTT"
               /\ rows'[Len(rows')].iterations = 0
               /\ rows'[Len(rows')].latency_p50_ms = None
               /\ rows'[Len(rows')].latency_p95_ms = None
               /\ rows'[Len(rows')].latency_max_ms = None
               /\ rows'[Len(rows')].throughput_msg_per_s = 0
               /\ ret.ok = 0 => rows'[Len(rows')].loss_percent = 100 * 100 ]_vars

\* the row of an MQTT run whose only publish was lost and whose wait
\* timed out has been appended
C22_Witness ==
    /\ pc = "dispatch" /\ timedOut /\ iterations >= 1 /\ recv = 0
    /\ rows # <<>>
    /\ rows[Len(rows)].protocol = "MQTT"
    /\ rows[Len(rows)].iterations = 0
    /\ rows[Len(rows)].loss_percent = 100 * 100

\* the counters the requests served so far should add up to
ExpectedStats ==
    [total_requests |-> served.accepted,
     successful_requests |-> served.accepted,
     failed_requests |-> served.failed,
     total_bytes |-> served.bytes]

\* C23: in http_server.py the counters change only in a step of the thread
\* that holds stats_lock, and whenever the lock is free they are what the
\* requests served since the last reset add up to: total_requests =
\* successful_requests = the accepted ingests, total_bytes the sum of
\* their body sizes, failed_requests the rejected ingests (which change
\* nothing else), all 0 after a reset; and the copy /stats answers with
\* has total_requests = successful_requests.
C23_StatsUnderLock ==
    [][ /\ stats' # stats =>
               (lock # 0 /\ lock' = lock /\ handlers[lock].pc \in {"locked", "write"})
        /\ lock' = 0 => stats' = ExpectedStats'
        /\ \A t \in Threads :
               handlers'[t].snap.total_requests
                   = handlers'[t].snap.successful_requests ]_vars

\* the same while every body that held device_id was a JSON object
C23_ObjectBodies ==
    [][ /\ stats' # stats =>
               (lock # 0 /\ lock' = lock /\ handlers[lock].pc \in {"locked", "write"})
        /\ (lock' = 0 /\ served'.arrays = 0) => stats' = ExpectedStats'
        /\ \A t \in Threads :
               handlers'[t].snap.total_requests
                   = handlers'[t].snap.successful_requests ]_vars

=============================================================================
